---- MODULE Spec2Model ----
(***************************************************************************)
(* Model of app.py of realtime_newsletter: keyword classification of news  *)
(* articles (categorize_article), leading-sentence summaries               *)
(* (summarize_text), the per-article loop (process_articles), the grouping *)
(* by sector (generate_newsletter_html) and the orchestration              *)
(* (main_workflow).                                                        *)
(*                                                                         *)
(* A Python str is a sequence of one-character strings.  A Python dict is  *)
(* a function whose DOMAIN is its key set; an ordered dict of sectors is a *)
(* sequence of [sector, keywords] records with distinct sector names.      *)
(* Article dicts live in a heap (the sequence articles); lists of articles *)
(* hold heap indices, which is Python's sharing by reference.              *)
(***************************************************************************)
EXTENDS Integers, Sequences, FiniteSets, TLC

VARIABLES SECTORS, articles, fetched, pc, i, title_and_summary,
          identified_sectors, processed_data, rendered, log,
          sum_text, sum_max, sum_out, sum_again

vars == <<SECTORS, articles, fetched, pc, i, title_and_summary,
          identified_sectors, processed_data, rendered, log,
          sum_text, sum_max, sum_out, sum_again>>

----------------------------------------------------------------------------
(* Bounds *)

MaxArticles == 2

MaxLimit == 4

(* Program constant: max_sentences=3 *)
DefaultMaxSentences == 3

----------------------------------------------------------------------------
(* Strings *)

Min(a, b) == IF a < b THEN a ELSE b

Max(a, b) == IF a > b THEN a ELSE b

Range(s) == {s[k] : k \in 1..Len(s)}

UpperAlphabet ==
  <<"A","B","C","D","E","F","G","H","I","J","K","L","M",
    "N","O","P","Q","R","S","T","U","V","W","X","Y","Z">>

LowerAlphabet ==
  <<"a","b","c","d","e","f","g","h","i","j","k","l","m",
    "n","o","p","q","r","s","t","u","v","w","x","y","z">>

LowerChar(c) ==
  IF \E k \in 1..Len(UpperAlphabet) : UpperAlphabet[k] = c
  THEN LowerAlphabet[CHOOSE k \in 1..Len(UpperAlphabet) : UpperAlphabet[k] = c]
  ELSE c

(* str.lower() *)
lower(s) == [k \in 1..Len(s) |-> LowerChar(s[k])]

(* keyword in text *)
Contains(keyword, text) ==
  \E p \in 0..(Len(text) - Len(keyword)) :
     SubSeq(text, p + 1, p + Len(keyword)) = keyword

(* The Python value None; no str equals it. *)
None == <<"<None>">>

(* What an f-string writes for a value: str(None) is "None". *)
Format(v) == IF v = None THEN <<"N","o","n","e">> ELSE v

(* dict.get(key, default) *)
Get(d, key, default) == IF key \in DOMAIN d THEN d[key] ELSE default

(* d[key] = value *)
SetItem(d, key, value) ==
  [k \in (DOMAIN d) \cup {key} |-> IF k = key THEN value ELSE d[k]]

----------------------------------------------------------------------------
(* Inputs *)

CatalogMain ==
  << [sector |-> "Technology",
      keywords |-> << <<"t","e","c","h">>, <<"A","I">> >>],
     [sector |-> "Pharmaceuticals",
      keywords |-> << <<"d","r","u","g">>, <<"F","D","A">>, <<"R","&","D">> >>],
     [sector |-> "Energy",
      keywords |-> << <<"o","i","l">>, <<"g","a","s">>, <<"E","S","G">> >>],
     [sector |-> "Automotive",
      keywords |-> << <<"a","u","t","o">>, <<"c","a","r">>, <<"E","V">> >>],
     [sector |-> "Finance",
      keywords |-> << <<"b","a","n","k">>, <<"I","P","O">> >>],
     [sector |-> "Real Estate",
      keywords |-> << <<"h","o","u","s","i","n","g">>, <<"R","E","I","T">> >>],
     [sector |-> "Retail",
      keywords |-> << <<"r","e","t","a","i","l">> >>] >>

CatalogCar ==
  << [sector |-> "Automotive", keywords |-> << <<"c","a","r">> >>] >>

Catalogs == {<< >>, CatalogMain, CatalogCar}

Titles == {None, <<"A","I">>, <<"s","c","a","r">>, <<"T","e","c","h"," ","O","i","l">>}

Summaries == {None, << >>, <<"g","a","s","."," ","E","V","."," ","a","."," ","b">>}

Link == <<"u">>

(* Article dicts as the fetch layer or a direct caller supplies them; a    *)
(* dict without a 'title' key is one a direct caller of process_articles   *)
(* may pass.                                                               *)
ArticleValues ==
  {[title |-> t, summary |-> s, link |-> Link] : t \in Titles, s \in Summaries}
  \cup {[summary |-> s, link |-> Link] : s \in Summaries}

SeqsUpTo(S, n) == UNION {[1..m -> S] : m \in 0..n}

----------------------------------------------------------------------------
(* categorize_article *)

any_keyword(keywords, doc_text) ==
  \E j \in 1..Len(keywords) : Contains(keywords[j], doc_text)

categorize_article(article_text, sectors) ==
  LET doc_text == lower(article_text)
      matched  == SelectSeq(sectors, LAMBDA e : any_keyword(e.keywords, doc_text))
  IN  [k \in 1..Len(matched) |-> matched[k].sector]

----------------------------------------------------------------------------
(* summarize_text *)

RECURSIVE LStrip(_)
LStrip(s) == IF s # << >> /\ Head(s) = " " THEN LStrip(Tail(s)) ELSE s

RECURSIVE RStrip(_)
RStrip(s) ==
  IF s # << >> /\ s[Len(s)] = " " THEN RStrip(SubSeq(s, 1, Len(s) - 1)) ELSE s

Strip(s) == RStrip(LStrip(s))

(* doc.sents, sent.text: the sentence segmentation is the spaCy pipeline's; *)
(* it is rendered here as a deterministic punctuation segmenter: a         *)
(* sentence ends at a "." that is followed by a space or by the end of the *)
(* text, and a sentence's text carries no surrounding whitespace.          *)
RECURSIVE SplitSents(_, _, _)
SplitSents(text, k, cur) ==
  IF k > Len(text)
  THEN IF Strip(cur) = << >> THEN << >> ELSE <<Strip(cur)>>
  ELSE IF text[k] = "." /\ (k = Len(text) \/ text[k + 1] = " ")
       THEN <<Strip(Append(cur, "."))>> \o SplitSents(text, k + 1, << >>)
       ELSE SplitSents(text, k + 1, Append(cur, text[k]))

sents(text) == SplitSents(text, 1, << >>)

(* a slice that takes one element too many *)
SliceInclusive(s, stop) == SubSeq(s, 1, Min(stop + 1, Len(s)))

(* sentences[:max_sentences], with Python's meaning of a negative stop *)
Slice(s, stop) ==
  SubSeq(s, 1, IF stop < 0 THEN Max(Len(s) + stop, 0) ELSE Min(stop, Len(s)))

(* " ".join(parts) *)
RECURSIVE JoinSpace(_)
JoinSpace(parts) ==
  IF parts = << >> THEN << >>
  ELSE IF Len(parts) = 1 THEN parts[1]
  ELSE parts[1] \o <<" ">> \o JoinSpace(Tail(parts))

summarize_text(text, max_sentences) ==
  JoinSpace(Slice(sents(text), max_sentences))

----------------------------------------------------------------------------
(* process_articles *)

(* f"{article.get('title', '')}. {article.get('summary', '')}" *)
combine(article) ==
  Format(Get(article, "title", << >>)) \o <<".", " ">>
    \o Format(Get(article, "summary", << >>))

(* a loop that keeps every article *)
is_relevant_always(sectors) == TRUE

(* a loop that stops after the first article *)
loop_done_early(k, arts) == k > Min(1, Len(arts))

(* if identified_sectors: *)
is_relevant(sectors) == sectors # << >>

(* for article in articles: exhausted *)
loop_done(k, arts) == k > Len(arts)

----------------------------------------------------------------------------
(* generate_newsletter_html: grouping *)

(* an append that ignores which bucket the sector names *)
append_to_every(buckets, sector, a) ==
  [k \in 1..Len(buckets) |-> [buckets[k] EXCEPT !.articles = Append(@, a)]]

(* if sector in articles_by_sector: articles_by_sector[sector].append(article) *)
append_to(buckets, sector, a) ==
  [k \in 1..Len(buckets) |->
     IF buckets[k].sector = sector
     THEN [buckets[k] EXCEPT !.articles = Append(@, a)]
     ELSE buckets[k]]

(* for sector in article['sectors'] *)
RECURSIVE add_sectors(_, _, _)
add_sectors(buckets, secs, a) ==
  IF secs = << >> THEN buckets
  ELSE add_sectors(append_to(buckets, Head(secs), a), Tail(secs), a)

(* for article in processed_articles *)
RECURSIVE add_articles(_, _, _)
add_articles(buckets, processed, heap) ==
  IF processed = << >> THEN buckets
  ELSE add_articles(add_sectors(buckets, heap[Head(processed)]["sectors"],
                                Head(processed)),
                    Tail(processed), heap)

articles_by_sector(catalog, processed, heap) ==
  add_articles([k \in 1..Len(catalog) |->
                  [sector |-> catalog[k].sector, articles |-> << >>]],
               processed, heap)

(* a grouping that keeps the empty buckets *)
unfiltered_articles_by_sector(catalog, processed, heap) ==
  add_articles([k \in 1..Len(catalog) |->
                  [sector |-> catalog[k].sector, articles |-> << >>]],
               processed, heap)

(* {sector: articles for sector, articles in ... if articles} *)
filtered_articles_by_sector(catalog, processed, heap) ==
  SelectSeq(articles_by_sector(catalog, processed, heap),
            LAMBDA b : b.articles # << >>)

----------------------------------------------------------------------------
(* main_workflow *)

(* a workflow that never takes the early return *)
never_exit(processed) == FALSE

(* if not processed_articles: return *)
no_relevant(processed) == processed = << >>

Event(op, a, matched) == [op |-> op, article |-> a, matched |-> matched]

Init ==
  /\ SECTORS \in Catalogs
  /\ articles = << >>
  /\ fetched = << >>
  /\ pc = "start"
  /\ i = 0
  /\ title_and_summary = << >>
  /\ identified_sectors = << >>
  /\ processed_data = << >>
  /\ rendered = << >>
  /\ log = << >>
  /\ sum_text = << >>
  /\ sum_max = 0
  /\ sum_out = << >>
  /\ sum_again = << >>

SumVars == <<sum_text, sum_max, sum_out, sum_again>>

(* get_newsapi_articles returns; process_articles is entered *)
FetchOk ==
  /\ pc = "start"
  /\ \E arts \in SeqsUpTo(ArticleValues, MaxArticles) :
       /\ articles' = arts
       /\ fetched' = arts
  /\ pc' = "loop"
  /\ i' = 1
  /\ processed_data' = << >>
  /\ UNCHANGED <<SECTORS, title_and_summary, identified_sectors, rendered, log>>
  /\ UNCHANGED SumVars

(* requests.exceptions.RequestException: return *)
FetchFail ==
  /\ pc = "start"
  /\ pc' = "fetch_failed"
  /\ UNCHANGED <<SECTORS, articles, fetched, i, title_and_summary,
                 identified_sectors, processed_data, rendered, log>>
  /\ UNCHANGED SumVars

(* loop body up to the categorize_article call *)
Categorize ==
  /\ pc = "loop"
  /\ ~loop_done(i, articles)
  /\ title_and_summary' = combine(articles[i])
  /\ identified_sectors' = categorize_article(title_and_summary', SECTORS)
  /\ log' = Append(log, Event("classify", i, identified_sectors' # << >>))
  /\ pc' = "classified"
  /\ UNCHANGED <<SECTORS, articles, fetched, i, processed_data, rendered>>
  /\ UNCHANGED SumVars

(* the body of "if identified_sectors:" *)
Keep ==
  /\ pc = "classified"
  /\ is_relevant(identified_sectors)
  /\ articles' =
       [articles EXCEPT ![i] =
          SetItem(SetItem(@, "sectors", identified_sectors),
                  "generated_summary",
                  summarize_text(title_and_summary, DefaultMaxSentences))]
  /\ processed_data' = Append(processed_data, i)
  /\ log' = Append(log, Event("summarize", i, TRUE))
  /\ i' = i + 1
  /\ pc' = "loop"
  /\ UNCHANGED <<SECTORS, fetched, title_and_summary, identified_sectors, rendered>>
  /\ UNCHANGED SumVars

Skip ==
  /\ pc = "classified"
  /\ ~is_relevant(identified_sectors)
  /\ i' = i + 1
  /\ pc' = "loop"
  /\ UNCHANGED <<SECTORS, articles, fetched, title_and_summary,
                 identified_sectors, processed_data, rendered, log>>
  /\ UNCHANGED SumVars

(* return processed_data *)
ProcessReturn ==
  /\ pc = "loop"
  /\ loop_done(i, articles)
  /\ pc' = "processed"
  /\ UNCHANGED <<SECTORS, articles, fetched, i, title_and_summary,
                 identified_sectors, processed_data, rendered, log>>
  /\ UNCHANGED SumVars

ExitNoArticles ==
  /\ pc = "processed"
  /\ no_relevant(processed_data)
  /\ pc' = "done"
  /\ UNCHANGED <<SECTORS, articles, fetched, i, title_and_summary,
                 identified_sectors, processed_data, rendered, log>>
  /\ UNCHANGED SumVars

(* generate_newsletter_html(processed_articles, date=today) is called *)
CallGenerate ==
  /\ pc = "processed"
  /\ ~no_relevant(processed_data)
  /\ pc' = "group"
  /\ UNCHANGED <<SECTORS, articles, fetched, i, title_and_summary,
                 identified_sectors, processed_data, rendered, log>>
  /\ UNCHANGED SumVars

(* generate_newsletter_html: the payload is built and handed to the template *)
Group ==
  /\ pc = "group"
  /\ rendered' = Append(rendered,
                        filtered_articles_by_sector(SECTORS, processed_data, articles))
  /\ log' = Append(log, Event("aggregate", 0, TRUE))
  /\ pc' = "done"
  /\ UNCHANGED <<SECTORS, articles, fetched, i, title_and_summary,
                 identified_sectors, processed_data>>
  /\ UNCHANGED SumVars

Next ==
  \/ FetchOk
  \/ FetchFail
  \/ Categorize
  \/ Keep
  \/ Skip
  \/ ProcessReturn
  \/ ExitNoArticles
  \/ CallGenerate
  \/ Group

Spec == Init /\ [][Next]_vars

----------------------------------------------------------------------------
(* generate_newsletter_html called on any sequence of processed articles *)

SectorLists ==
  { <<"Automotive">>, <<"Energy", "Automotive">>, <<"Technology", "Finance">>,
    <<"Finance", "Technology">>, <<"Retail">>, <<"Sports">> }

ProcessedValues ==
  {[title |-> <<"O","i","l">>, summary |-> << >>, link |-> Link,
    sectors |-> s, generated_summary |-> <<"O","i","l",".">>] : s \in SectorLists}

InitGroup ==
  /\ SECTORS \in Catalogs
  /\ articles \in SeqsUpTo(ProcessedValues, MaxArticles)
  /\ fetched = articles
  /\ pc = "group"
  /\ i = Len(articles) + 1
  /\ title_and_summary = << >>
  /\ identified_sectors = << >>
  /\ processed_data = [k \in 1..Len(articles) |-> k]
  /\ rendered = << >>
  /\ log = << >>
  /\ sum_text = << >>
  /\ sum_max = 0
  /\ sum_out = << >>
  /\ sum_again = << >>

NextGroup == Group

SpecGroup == InitGroup /\ [][NextGroup]_vars

----------------------------------------------------------------------------
(* summarize_text called on any text with any limit *)

SumTexts == {combine(a) : a \in ArticleValues} \cup {<< >>, <<" ">>}

InitSum ==
  /\ SECTORS = << >>
  /\ articles = << >>
  /\ fetched = << >>
  /\ pc = "summarize"
  /\ i = 0
  /\ title_and_summary = << >>
  /\ identified_sectors = << >>
  /\ processed_data = << >>
  /\ rendered = << >>
  /\ log = << >>
  /\ sum_text \in SumTexts
  /\ sum_max \in (-1)..MaxLimit
  /\ sum_out = << >>
  /\ sum_again = << >>

MainVars == <<SECTORS, articles, fetched, i, title_and_summary,
              identified_sectors, processed_data, rendered, log>>

Summarize ==
  /\ pc = "summarize"
  /\ sum_out' = summarize_text(sum_text, sum_max)
  /\ pc' = "summarized"
  /\ UNCHANGED <<sum_text, sum_max, sum_again>>
  /\ UNCHANGED MainVars

SummarizeAgain ==
  /\ pc = "summarized"
  /\ sum_again' = summarize_text(sum_text, sum_max)
  /\ pc' = "summarized_again"
  /\ UNCHANGED <<sum_text, sum_max, sum_out>>
  /\ UNCHANGED MainVars

NextSum == Summarize \/ SummarizeAgain

SpecSum == InitSum /\ [][NextSum]_vars

----------------------------------------------------------------------------
(* Properties *)

Ids == [k \in 1..Len(fetched) |-> k]

Returned == pc \in {"processed", "group", "done"}

Count(seq, x) == Cardinality({k \in 1..Len(seq) : seq[k] = x})

Events(op, a) == {k \in 1..Len(log) : log[k].op = op /\ log[k].article = a}

(* a keyword occurs in the text when case is ignored on both sides *)
ContainsIgnoringCase(keyword, text) == Contains(lower(keyword), lower(text))

SectorMatches(entry, text) ==
  \E j \in 1..Len(entry.keywords) : ContainsIgnoringCase(entry.keywords[j], text)

ExpectedSectors(text, catalog) ==
  LET hit == SelectSeq(catalog, LAMBDA e : SectorMatches(e, text))
  IN  [k \in 1..Len(hit) |-> hit[k].sector]

(* C1: categorize_article returns exactly the sectors one of whose keywords *)
(* occurs in the text as a case-insensitive substring, in catalog order and *)
(* without repetition, upper-case keywords such as "AI" included.           *)
C1_CaseInsensitiveMatch ==
  pc = "classified" =>
    identified_sectors = ExpectedSectors(title_and_summary, SECTORS)

Tagged(heap, a, sector) == sector \in Range(heap[a]["sectors"])

ExpectedPayload(catalog, processed, heap) ==
  LET present == SelectSeq(catalog,
                   LAMBDA e : \E k \in 1..Len(processed) :
                                 Tagged(heap, processed[k], e.sector))
  IN  [k \in 1..Len(present) |->
         [sector   |-> present[k].sector,
          articles |-> SelectSeq(processed,
                         LAMBDA a : Tagged(heap, a, present[k].sector))]]

(* C2: the grouping's keys are exactly the catalog sectors some processed   *)
(* article is tagged with, in catalog order; each value is all the articles *)
(* tagged with the key, in input order; no key maps to an empty list.       *)
C2_Grouping ==
  pc = "done" =>
    /\ Len(rendered) = 1
    /\ rendered[1] = ExpectedPayload(SECTORS, processed_data, articles)
    /\ \A k \in 1..Len(rendered[1]) : rendered[1][k].articles # << >>

C2_Witness ==
  /\ pc = "done"
  /\ Len(rendered) = 1
  /\ Len(rendered[1]) = 2
  /\ Len(rendered[1]) < Len(SECTORS)
  /\ \E k \in 1..2 : Len(rendered[1][k].articles) = 2
  /\ \E a \in 1..Len(articles) : ~Tagged(articles, a, rendered[1][1].sector)

(* offset of the j-th part in the joined string *)
RECURSIVE Offset(_, _)
Offset(parts, j) ==
  IF j = 1 THEN 0 ELSE Offset(parts, j - 1) + Len(parts[j - 1]) + 1

IsSpaceJoin(out, parts) ==
  IF parts = << >> THEN out = << >>
  ELSE /\ Len(out) = Offset(parts, Len(parts)) + Len(parts[Len(parts)])
       /\ \A j \in 1..Len(parts) :
            /\ SubSeq(out, Offset(parts, j) + 1, Offset(parts, j) + Len(parts[j]))
                 = parts[j]
            /\ j > 1 => out[Offset(parts, j)] = " "

NoKeyword(text, catalog) ==
  \A k \in 1..Len(catalog) : ~SectorMatches(catalog[k], text)

(* C4: with a non-empty catalog process_articles returns exactly the input  *)
(* articles whose classification is non-empty, in input order; an article   *)
(* whose text holds no configured keyword is not in the result, and every   *)
(* article in the result carries a non-empty sectors list.                  *)
C4_OnlyClassifiedKept ==
  (Returned /\ Len(SECTORS) > 0) =>
    /\ processed_data =
         SelectSeq(Ids, LAMBDA a :
           categorize_article(combine(fetched[a]), SECTORS) # << >>)
    /\ \A a \in 1..Len(fetched) :
         NoKeyword(combine(fetched[a]), SECTORS) => a \notin Range(processed_data)
    /\ \A a \in Range(processed_data) :
         /\ "sectors" \in DOMAIN articles[a]
         /\ articles[a]["sectors"] # << >>

C4_Witness ==
  /\ pc = "processed"
  /\ Len(SECTORS) > 0
  /\ Len(fetched) = 2
  /\ processed_data = <<2>>
  /\ NoKeyword(combine(fetched[1]), SECTORS)

(* a missing or null text field read as the empty string *)
FieldOrEmpty(article, key) ==
  IF key \in DOMAIN article /\ article[key] # None THEN article[key] ELSE << >>

NormalizedText(article) ==
  FieldOrEmpty(article, "title") \o <<".", " ">> \o FieldOrEmpty(article, "summary")

(* C5: an article whose title or summary is missing or null is processed as *)
(* if the field were the empty string: the text classified and summarized   *)
(* for it is the text built from "" in place of the field.                  *)
C5_NullAsEmpty ==
  pc = "classified" => title_and_summary = NormalizedText(fetched[i])

(* C6: an empty catalog is rejected with a failure: the classifier never    *)
(* returns a classification for it and the run never completes on it.       *)
C6_EmptyCatalogRejected ==
  Len(SECTORS) = 0 =>
    /\ pc # "classified"
    /\ ~(pc = "done" /\ Len(fetched) > 0)

(* C7: a processed article tagged with N sectors is exactly once in each of *)
(* those N buckets and in no other bucket; the entries are the one article  *)
(* record, whose sectors are its classification and whose generated_summary *)
(* was computed once.                                                       *)
C7_FanOut ==
  (pc = "done" /\ rendered # << >>) =>
    \A a \in Range(processed_data) :
      /\ \A k \in 1..Len(rendered[1]) :
           Count(rendered[1][k].articles, a) =
             IF Tagged(articles, a, rendered[1][k].sector) THEN 1 ELSE 0
      /\ \A s \in Range(articles[a]["sectors"]) :
           \E k \in 1..Len(rendered[1]) : rendered[1][k].sector = s
      /\ articles[a]["sectors"] = categorize_article(combine(fetched[a]), SECTORS)
      /\ articles[a]["generated_summary"] =
           summarize_text(combine(fetched[a]), DefaultMaxSentences)
      /\ Cardinality(Events("summarize", a)) = 1

C7_Witness ==
  /\ pc = "done"
  /\ Len(rendered) = 1
  /\ Len(SECTORS) > 2
  /\ \E a \in Range(processed_data) :
       /\ Len(articles[a]["sectors"]) = 2
       /\ \E k \in 1..Len(rendered[1]) : Count(rendered[1][k].articles, a) = 0
       /\ Cardinality({k \in 1..Len(rendered[1]) :
                         Count(rendered[1][k].articles, a) = 1}) = 2

(* C8: after process_articles returns, every article record of the input    *)
(* sequence has exactly the fields and values it had before the call.       *)
C8_InputUnchanged ==
  Returned => \A a \in 1..Len(fetched) : articles[a] = fetched[a]

(* C9 as stated: with an empty fetched sequence, or no article matching,    *)
(* the run completes and yields an empty payload, a mapping with no keys.   *)
C9_EmptyPayloadYielded ==
  (pc = "done" /\ processed_data = << >>) => rendered = << << >> >>

(* C9 amended: with an empty fetched sequence, or no article matching,      *)
(* process_articles returns an empty sequence and the run ends by the early *)
(* return: the grouping step never runs and no payload is built or handed   *)
(* to the template.                                                         *)
C9_NoPayloadBuilt ==
  /\ (Returned /\ \A a \in 1..Len(fetched) :
                     categorize_article(combine(fetched[a]), SECTORS) = << >>)
       => processed_data = << >>
  /\ (Returned /\ processed_data = << >>) =>
       /\ pc # "group"
       /\ rendered = << >>
       /\ Events("aggregate", 0) = {}

C9_Witness ==
  /\ pc = "done"
  /\ Len(SECTORS) > 0
  /\ Len(fetched) = 2
  /\ processed_data = << >>
  /\ rendered = << >>

Ordered ==
  /\ \A k \in 1..Len(log) :
       log[k].op = "summarize" =>
         \E j \in 1..(k - 1) : /\ log[j].op = "classify"
                               /\ log[j].article = log[k].article
                               /\ log[j].matched
  /\ \A k \in 1..Len(log) :
       log[k].op = "aggregate" =>
         \A a \in 1..Len(fetched) :
           \E j \in 1..(k - 1) :
              /\ log[j].op = "classify"
              /\ log[j].article = a
              /\ log[j].matched =>
                   \E m \in (j + 1)..(k - 1) : /\ log[m].op = "summarize"
                                               /\ log[m].article = a

(* C10 as stated: classification precedes summarization, only classified    *)
(* articles are summarized, and every run aggregates exactly once, after    *)
(* every article has been classified.                                       *)
C10_AggregatesExactlyOnce ==
  /\ Ordered
  /\ pc \in {"done", "fetch_failed"} => Cardinality(Events("aggregate", 0)) = 1

(* C10 amended: classification precedes summarization, only classified      *)
(* articles are summarized, and aggregation happens at most once and only   *)
(* after every article has been classified and, if kept, summarized: once   *)
(* in a run that keeps an article, never in a run that keeps none or whose  *)
(* fetch fails.                                                             *)
C10_AggregatesAtMostOnce ==
  /\ Ordered
  /\ Cardinality(Events("aggregate", 0)) <= 1
  /\ pc = "done" =>
       (Cardinality(Events("aggregate", 0)) = 1 <=> processed_data # << >>)
  /\ pc = "fetch_failed" => Events("aggregate", 0) = {}

C10_Witness ==
  /\ pc = "done"
  /\ Len(fetched) = 2
  /\ processed_data = <<1>>
  /\ Cardinality(Events("aggregate", 0)) = 1
  /\ Len(log) = 4

====
